---- MODULE Spec2Model ----
(***************************************************************************)
(* A model of LogAggregatorHandler (log_aggregator.py): the aggregation    *)
(* cache, the ingestion path emit(), and the flush protocol                *)
(* store_aggregation() with its self-rescheduling threading.Timer.         *)
(*                                                                         *)
(* Python strings are sequences of one-character strings, so that string   *)
(* concatenation, slicing, formatting and comparison are computed as the   *)
(* code computes them.  Threads interleave at the granularity of source    *)
(* lines; a "with self._aggregation_lock" block is entered in one step.    *)
(***************************************************************************)
EXTENDS Integers, Sequences, FiniteSets, TLC

\* ------------------------------------------------------------------ bounds
\* Spec: producers, timer firings and flush() calls of application threads
NumProducers == 2     \* producer threads calling emit()
MaxRecords == 2       \* log records handed to emit() in one behaviour
MaxFlushCalls == 2    \* invocations of flush(), by a timer or by a thread
\* SpecTimer, SpecScenario: the timer thread alone drives the flushes
MaxFlushes == 1       \* timer firings
\* SpecScenario: one thread logs ScenarioRecords records
ScenarioRecords == 3
\* SpecConstruct: the handlers constructed in one process
MaxEngines == 2

\* ----------------------------------------------------------------- strings
\* The characters that occur, in code-point order (str comparison in Python
\* compares code points).
Alphabet ==
  << "\t", " ", "(", ")",
     "0", "1", "2", "3", "4", "5", "6", "7", "8", "9",
     "A", "B", "C", "F", "I", "N", "O",
     "a", "c", "d", "e", "f", "g", "i", "k", "l", "m", "n", "o",
     "r", "s", "t", "u" >>

Ord(ch) == CHOOSE i \in 1..Len(Alphabet) : Alphabet[i] = ch

Digits == << "0", "1", "2", "3", "4", "5", "6", "7", "8", "9" >>

\* str(int) / "{}".format(int) for a non-negative int
RECURSIVE IntToStr(_)
IntToStr(n) ==
  IF n < 10 THEN << Digits[n + 1] >>
  ELSE IntToStr(n \div 10) \o << Digits[(n % 10) + 1] >>

\* a < b on Python str: the first differing character decides, otherwise the
\* shorter string is the smaller
RECURSIVE StrLess(_, _)
StrLess(a, b) ==
  IF b = << >> THEN FALSE
  ELSE IF a = << >> THEN TRUE
  ELSE IF Head(a) = Head(b) THEN StrLess(Tail(a), Tail(b))
  ELSE Ord(Head(a)) < Ord(Head(b))

\* s[:-k] for k >= 1
DropLast(s, k) == SubSeq(s, 1, IF Len(s) > k THEN Len(s) - k ELSE 0)

\* the value None; no str equals it
None == << "<NoneType>" >>

\* ------------------------------------------------------ class attributes
default_flush_timer == 300
default_separator == << "\t" >>
default_metadata == << "filename", "name", "funcName", "lineno", "levelname" >>

\* str(single_metadata) for the attribute names
AttrName(a) ==
  CASE a = "filename"  -> << "f", "i", "l", "e", "n", "a", "m", "e" >>
    [] a = "name"      -> << "n", "a", "m", "e" >>
    [] a = "funcName"  -> << "f", "u", "n", "c", "N", "a", "m", "e" >>
    [] a = "lineno"    -> << "l", "i", "n", "e", "n", "o" >>
    [] a = "levelname" -> << "l", "e", "v", "e", "l", "n", "a", "m", "e" >>

\* the handler of the model is built as in __main__: LogAggregatorHandler()
separator == default_separator
metadata == default_metadata

\* --------------------------------------------------------------- records
\* A record attribute is an int ([int |-> n]) or a str ([str |-> s]).
StrOf(value) == IF "int" \in DOMAIN value THEN IntToStr(value.int) ELSE value.str

Site(file, lineno) ==
  [ filename  |-> [str |-> << file >>],
    name      |-> [str |-> << "r" >>],
    funcName  |-> [str |-> << "f" >>],
    lineno    |-> [int |-> lineno],
    levelname |-> [str |-> << "I", "N", "F", "O" >>] ]

DiskFull == << "d", "i", "s", "k", " ", "f", "u", "l", "l" >>
Ok == << "o", "k" >>

\* The log calls of the application: the attributes of the call site, the
\* message template (record.msg, any object: None is logger.info(None)) and
\* whether the call passes formatting arguments.
LogCalls ==
  { [attrs |-> Site("A", 7),  msg |-> DiskFull, hasArgs |-> FALSE],
    [attrs |-> Site("A", 7),  msg |-> Ok,       hasArgs |-> TRUE],
    [attrs |-> Site("A", 7),  msg |-> None,     hasArgs |-> FALSE],
    [attrs |-> Site("B", 7),  msg |-> Ok,       hasArgs |-> FALSE],
    [attrs |-> Site("A", 10), msg |-> DiskFull, hasArgs |-> FALSE] }

\* LogRecord(...) made by the logging front end at time "created"
MakeRecord(lc, created) ==
  [ attrs |-> lc.attrs, msg |-> lc.msg, created |-> created,
    args |-> IF lc.hasArgs THEN << created >> ELSE << >> ]

NoRecord == [ attrs |-> << >>, msg |-> None, created |-> 0, args |-> << >> ]

\* ----------------------------------------------------------- find_unique
\* mutant: the values are concatenated without the separator
RECURSIVE JoinMetadataBare(_, _, _)
JoinMetadataBare(record, names, sep) ==
  IF names = << >> THEN << >>
  ELSE LET single_metadata == Head(names)
           value == IF single_metadata \in DOMAIN record.attrs
                    THEN StrOf(record.attrs[single_metadata])
                    ELSE << "m", "i", "s", "s", "i", "n", "g", " " >>
                         \o AttrName(single_metadata)
       IN  value \o JoinMetadataBare(record, Tail(names), sep)

\* the loop of lines 77-79: metadata += str(value) + self._separator
RECURSIVE JoinMetadata(_, _, _)
JoinMetadata(record, names, sep) ==
  IF names = << >> THEN << >>
  ELSE LET single_metadata == Head(names)
           value == IF single_metadata \in DOMAIN record.attrs
                    THEN StrOf(record.attrs[single_metadata])
                    ELSE << "m", "i", "s", "s", "i", "n", "g", " " >>
                         \o AttrName(single_metadata)
       IN  (value \o sep) \o JoinMetadata(record, Tail(names), sep)

find_unique(record) ==
  DropLast(JoinMetadata(record, metadata, separator), Len(separator))

\* find_unique of a handler "self" with any _metadata and _separator
find_unique_of(self, record) ==
  DropLast(JoinMetadata(record, self.metadata, self.separator),
           Len(self.separator))

\* ---------------------------------------------------- LogAggregatorCache
\* LogAggregatorCache(): __init__ with record None
LogAggregatorCache ==
  [ message |-> None, counter |-> 0, timestamp |-> << >>, args |-> << >> ]

\* mutant: the assert comes after the appends and the increment
CacheRecordAssertLast(self, record) ==
  LET withMsg == IF self.message = None
                 THEN [self EXCEPT !.message = record.msg]
                 ELSE self
      folded == [ withMsg EXCEPT
                    !.timestamp = Append(@, record.created),
                    !.args = Append(@, record.args),
                    !.counter = @ + 1 ]
  IN  [ raised |-> IF withMsg.message # record.msg THEN "AssertionError" ELSE "",
        self |-> folded ]

\* mutant: the increment is under "if self.message is None"
CacheRecordCountFirst(self, record) ==
  LET withMsg == IF self.message = None
                 THEN [self EXCEPT !.message = record.msg, !.counter = @ + 1]
                 ELSE self
  IN  IF withMsg.message # record.msg
      THEN [ raised |-> "AssertionError", self |-> withMsg ]
      ELSE [ raised |-> "",
             self |-> [ withMsg EXCEPT
                          !.timestamp = Append(@, record.created),
                          !.args = Append(@, record.args) ] ]

\* mutant: the args of a record are appended only when there are any
CacheRecordSkipNoArgs(self, record) ==
  LET withMsg == IF self.message = None
                 THEN [self EXCEPT !.message = record.msg]
                 ELSE self
  IN  IF withMsg.message # record.msg
      THEN [ raised |-> "AssertionError", self |-> withMsg ]
      ELSE [ raised |-> "",
             self |-> [ withMsg EXCEPT
                          !.timestamp = Append(@, record.created),
                          !.args = IF record.args = << >> THEN @
                                   ELSE Append(@, record.args),
                          !.counter = @ + 1 ] ]

\* mutant: the args of a record are put in front of the list
CacheRecordArgsInFront(self, record) ==
  LET withMsg == IF self.message = None
                 THEN [self EXCEPT !.message = record.msg]
                 ELSE self
  IN  IF withMsg.message # record.msg
      THEN [ raised |-> "AssertionError", self |-> withMsg ]
      ELSE [ raised |-> "",
             self |-> [ withMsg EXCEPT
                          !.timestamp = Append(@, record.created),
                          !.args = << record.args >> \o @,
                          !.counter = @ + 1 ] ]

\* LogAggregatorCache.cache(record): the entry after the call and whether the
\* assert raised.  The message is assigned before the assert, the appends and
\* the increment come after it.
CacheRecord(self, record) ==
  LET withMsg == IF self.message = None
                 THEN [self EXCEPT !.message = record.msg]
                 ELSE self
  IN  IF withMsg.message # record.msg
      THEN [ raised |-> "AssertionError", self |-> withMsg ]
      ELSE [ raised |-> "",
             self |-> [ withMsg EXCEPT
                          !.timestamp = Append(@, record.created),
                          !.args = Append(@, record.args),
                          !.counter = @ + 1 ] ]

\* LogAggregatorCache.__str__: None + str raises TypeError
EntryStr(self) ==
  IF self.message = None
  THEN [ raised |-> "TypeError", str |-> << >> ]
  ELSE [ raised |-> "",
         str |-> self.message
                 \o << "\t", " ", "(", "o", "c", "c", "u", "r", "r", "e", "d", " " >>
                 \o IntToStr(self.counter)
                 \o << " ", "t", "i", "m", "e", "s", ")" >> ]

\* mutant: "{} {}".format(key, value)
FormatLineSpace(key, valueStr) == key \o << " " >> \o valueStr

\* "{}\t{}".format(key, value)
FormatLine(key, valueStr) == key \o << "\t" >> \o valueStr

\* ------------------------------------------------------------ defaultdict
\* A dict is the sequence of its items in insertion order.
cache_factory == << >>

IndexOf(d, key) ==
  IF \E i \in 1..Len(d) : d[i].key = key
  THEN CHOOSE i \in 1..Len(d) : d[i].key = key
  ELSE 0

Keys(d) == { d[i].key : i \in 1..Len(d) }

\* d[key] of a defaultdict: a missing key is inserted with the default value
GetItem(d, key) ==
  IF IndexOf(d, key) # 0 THEN d
  ELSE Append(d, [ key |-> key, value |-> LogAggregatorCache ])

\* sorted(d.items()): the keys of a dict are distinct, so the tuples are
\* ordered by their first component alone
RECURSIVE InsertSorted(_, _)
InsertSorted(item, sortedItems) ==
  IF sortedItems = << >> THEN << item >>
  ELSE IF StrLess(item.key, Head(sortedItems).key)
       THEN << item >> \o sortedItems
       ELSE << Head(sortedItems) >> \o InsertSorted(item, Tail(sortedItems))

RECURSIVE SortItems(_)
SortItems(items) ==
  IF items = << >> THEN << >>
  ELSE InsertSorted(Head(items), SortItems(Tail(items)))

\* mutant: the items are emitted as the dict yields them
sortedNot(items) == items

sorted(items) == SortItems(items)

\* ------------------------------------------------------- threading.RLock
\* The lock is its owner: 0 when free, p for producer p, -c for flush call c.
\* mutant: the lock excludes nobody
CanAcquireAlways(lock, thread) == TRUE

CanAcquire(lock, thread) == lock = 0 \/ lock = thread
Acquire(lock, thread) == thread
\* mutant: the lock is kept when the block is left
ReleaseNever(lock, thread) == lock

\* leaving the "with" block
Release(lock, thread) == 0

\* ------------------------------------------------------- threading.Timer
\* Timer(...): not started; cancel() sets finished; run() calls the function
\* once the interval has passed unless finished is set.
NewTimer == [ interval |-> default_flush_timer, started |-> FALSE,
              finished |-> FALSE, fired |-> FALSE ]

\* mutant: "except KeyError"
CaughtKeyError(exc) == exc \in { "KeyError" }

\* "except Exception" of emit
CaughtByEmit(exc) == exc \in { "AssertionError", "TypeError", "AttributeError" }

\* --------------------------------------------------------------- __init__
\* The flush_timer argument: None, or a number of seconds.
NoFlushTimer == [ given |-> FALSE, seconds |-> 0 ]
Seconds(n) == [ given |-> TRUE, seconds |-> n ]

\* the list object that the class attribute _default_metadata is bound to
default_metadata_ref == 1

\* LogAggregatorHandler(flush_timer, separator, add_process_thread), lines
\* 47-62, with the class's list object as it is before the call ("list") and
\* whether the global "logging" of line 59 is bound ("imported"): the handler
\* made, the list object after the call and the exception of the call.
\*   "x or default" takes the default for every falsy x: None, 0, "".
\*   self._metadata is bound to the class's list object itself, and += on a
\*   list extends the object in place.
\*   The timer is created and started (lines 55-56) before line 59.
Construct(flush_timer, sep, add_process_thread, list, imported) ==
  LET flush_timer_ == IF flush_timer.given /\ flush_timer.seconds # 0
                      THEN flush_timer.seconds
                      ELSE default_flush_timer
      separator_ == IF sep # None /\ sep # << >> THEN sep ELSE default_separator
  IN  [ self |-> [ flush_timer_arg |-> flush_timer,
                   add_process_thread |-> add_process_thread,
                   flush_timer |-> flush_timer_,
                   separator |-> separator_,
                   metadata |-> default_metadata_ref,
                   store_aggregation_timer |->
                     [ NewTimer EXCEPT !.interval = flush_timer_,
                                       !.started = TRUE ],
                   raised |-> IF imported THEN "" ELSE "NameError" ],
        list |-> IF add_process_thread
                 THEN list \o << "process", "thread" >>
                 ELSE list ]

\* ------------------------------------------------------------------ state
VARIABLES
  caches,                   \* the defaultdict objects ever made by cache_factory
  cache,                    \* self._cache: the index in caches of the live one
  aggregation_lock,         \* self._aggregation_lock: its owner
  timers,                   \* the Timer objects ever made by flush_timer_factory
  store_aggregation_timer,  \* self._store_aggregation_timer: an index in timers,
                            \*   0 while the attribute is deleted
  emits,                    \* the frame of the emit() call of each producer
  flushes,                  \* the frames of the flush() calls, in call order
  agg_log,                  \* the lines handed to agg_log.info, with the call
  created,                  \* the clock of the logging front end
  handled,                  \* number of handleError(record) calls
  inserts,                  \* history: the inserts that completed
  limits,                   \* the bounds of the behaviour, fixed by Init
  handlers,                 \* the LogAggregatorHandler(...) calls made, in order
  lists,                    \* the list objects the handlers' _metadata refer to
  logging_imported,         \* the module global "logging" is bound (line 111)
  keyed                     \* two records, a handler and their find_unique keys

\* what the constructions have made
built == << handlers, lists, logging_imported >>

vars == << caches, cache, aggregation_lock, timers, store_aggregation_timer,
           emits, flushes, agg_log, created, handled, inserts, limits, built, keyed >>

Producers == DOMAIN emits

IdleEmit == [ pc |-> "idle", record |-> NoRecord, metadata |-> << >>,
              target |-> 0, begin |-> 0 ]

NewFlush(byTimer) ==
  [ pc |-> "L95", byTimer |-> byTimer, temp_aggregation |-> 0,
    items |-> << >>, raised |-> "", armed |-> 0 ]

\* no find_unique call is looked at
NoKeys == [ a |-> NoRecord, b |-> NoRecord, metadata |-> << >>,
            separator |-> << >>, keys |-> << >> ]

\* the state after LogAggregatorHandler(): an empty cache, a free lock and
\* one started timer
InitWith(producers, records, flushCalls) ==
  /\ limits = [ records |-> records, flushes |-> flushCalls ]
  /\ caches = << cache_factory >>
  /\ cache = 1
  /\ aggregation_lock = 0
  /\ timers = << [ NewTimer EXCEPT !.started = TRUE ] >>
  /\ store_aggregation_timer = 1
  /\ emits = [ p \in 1..producers |-> IdleEmit ]
  /\ flushes = << >>
  /\ agg_log = << >>
  /\ created = 0
  /\ handled = 0
  /\ inserts = << >>
  /\ handlers = << Construct(NoFlushTimer, None, FALSE, default_metadata, TRUE).self >>
  /\ lists = << default_metadata >>
  /\ logging_imported = TRUE
  /\ keyed = NoKeys

Init == InitWith(NumProducers, MaxRecords, MaxFlushCalls)

\* ------------------------------------------------------------------- emit
\* a producer thread logs: the front end makes the record and calls emit.
\* Idle producer threads are interchangeable: the first one takes the call.
emit_call(p, lc) ==
  /\ emits[p].pc = "idle"
  /\ \A q \in Producers : q < p => emits[q].pc # "idle"
  /\ created < limits.records
  /\ created' = created + 1
  /\ emits' = [ emits EXCEPT ![p] =
                  [ pc |-> "L84", record |-> MakeRecord(lc, created + 1),
                    metadata |-> << >>, target |-> 0, begin |-> cache ] ]
  /\ UNCHANGED << caches, cache, aggregation_lock, timers,
                  store_aggregation_timer, flushes, agg_log, handled, inserts, limits, built, keyed >>

\* line 84: with self._aggregation_lock
emit_acquire(p) ==
  /\ emits[p].pc = "L84"
  /\ CanAcquire(aggregation_lock, p)
  /\ aggregation_lock' = Acquire(aggregation_lock, p)
  /\ emits' = [ emits EXCEPT ![p].pc = "L85" ]
  /\ UNCHANGED << caches, cache, timers, store_aggregation_timer, flushes,
                  agg_log, created, handled, inserts, limits, built, keyed >>

\* lines 85-86: metadata = find_unique(record); self._cache[metadata]
emit_getitem(p) ==
  /\ emits[p].pc = "L85"
  /\ LET key == find_unique(emits[p].record)
     IN  /\ caches' = [ caches EXCEPT ![cache] = GetItem(@, key) ]
         /\ emits' = [ emits EXCEPT ![p].pc = "L86", ![p].metadata = key,
                                    ![p].target = cache ]
  /\ UNCHANGED << cache, aggregation_lock, timers, store_aggregation_timer,
                  flushes, agg_log, created, handled, inserts, limits, built, keyed >>

\* line 86: .cache(record), then the end of the with block; an exception
\* leaves the with block too and reaches "except Exception" when it is one
emit_cache(p) ==
  /\ emits[p].pc = "L86"
  /\ LET e == emits[p]
         i == IndexOf(caches[e.target], e.metadata)
         r == CacheRecord(caches[e.target][i].value, e.record)
     IN  /\ caches' = [ caches EXCEPT ![e.target][i].value = r.self ]
         /\ IF r.raised = ""
            THEN /\ emits' = [ emits EXCEPT ![p] = IdleEmit ]
                 /\ inserts' = Append(inserts,
                      [ key |-> e.metadata, msg |-> e.record.msg,
                        created |-> e.record.created, args |-> e.record.args,
                        begin |-> e.begin, end |-> cache ])
            ELSE /\ emits' = [ emits EXCEPT ![p].pc =
                                 IF CaughtByEmit(r.raised) THEN "L88"
                                 ELSE "propagated" ]
                 /\ UNCHANGED inserts
  /\ aggregation_lock' = Release(aggregation_lock, p)
  /\ UNCHANGED << cache, timers, store_aggregation_timer, flushes, agg_log,
                  created, handled, limits, built, keyed >>

\* line 88: self.handleError(record), then emit returns
emit_handleError(p) ==
  /\ emits[p].pc = "L88"
  /\ handled' = handled + 1
  /\ emits' = [ emits EXCEPT ![p] = IdleEmit ]
  /\ UNCHANGED << caches, cache, aggregation_lock, timers,
                  store_aggregation_timer, flushes, agg_log, created, inserts, limits, built, keyed >>

\* ------------------------------------------------------------------ flush
\* Timer.run of timer t: the interval has passed, finished is not set, the
\* function (self.flush) is called in the timer's thread
timer_run(t) ==
  /\ t \in 1..Len(timers)
  /\ timers[t].started /\ ~timers[t].finished /\ ~timers[t].fired
  /\ Len(flushes) < limits.flushes
  /\ timers' = [ timers EXCEPT ![t].fired = TRUE ]
  /\ flushes' = Append(flushes, NewFlush(TRUE))
  /\ UNCHANGED << caches, cache, aggregation_lock, store_aggregation_timer,
                  emits, agg_log, created, handled, inserts, limits, built, keyed >>

\* flush() called by a thread of the application
flush ==
  /\ Len(flushes) < limits.flushes
  /\ flushes' = Append(flushes, NewFlush(FALSE))
  /\ UNCHANGED << caches, cache, aggregation_lock, timers,
                  store_aggregation_timer, emits, agg_log, created, handled,
                  inserts, limits, built, keyed >>

Raise(c, exc) == [ flushes EXCEPT ![c].pc = "raised", ![c].raised = exc ]

\* line 95: self._store_aggregation_timer.cancel()
store_aggregation_cancel(c) ==
  /\ flushes[c].pc = "L95"
  /\ IF store_aggregation_timer = 0
     THEN /\ flushes' = Raise(c, "AttributeError")
          /\ UNCHANGED timers
     ELSE /\ timers' = [ timers EXCEPT ![store_aggregation_timer].finished = TRUE ]
          /\ flushes' = [ flushes EXCEPT ![c].pc = "L96" ]
  /\ UNCHANGED << caches, cache, aggregation_lock, store_aggregation_timer,
                  emits, agg_log, created, handled, inserts, limits, built, keyed >>

\* line 96: del self._store_aggregation_timer
store_aggregation_del(c) ==
  /\ flushes[c].pc = "L96"
  /\ IF store_aggregation_timer = 0
     THEN /\ flushes' = Raise(c, "AttributeError")
          /\ UNCHANGED store_aggregation_timer
     ELSE /\ store_aggregation_timer' = 0
          /\ flushes' = [ flushes EXCEPT ![c].pc = "L97" ]
  /\ UNCHANGED << caches, cache, aggregation_lock, timers, emits, agg_log,
                  created, handled, inserts, limits, built, keyed >>

\* mutant: the detach is not under the lock
store_aggregation_unlocked(c) ==
  /\ flushes[c].pc = "L97"
  /\ flushes' = [ flushes EXCEPT ![c].pc = "L98" ]
  /\ UNCHANGED << caches, cache, aggregation_lock, timers,
                  store_aggregation_timer, emits, agg_log, created, handled,
                  inserts, limits, built, keyed >>

\* line 97: with self._aggregation_lock
store_aggregation_acquire(c) ==
  /\ flushes[c].pc = "L97"
  /\ CanAcquire(aggregation_lock, -c)
  /\ aggregation_lock' = Acquire(aggregation_lock, -c)
  /\ flushes' = [ flushes EXCEPT ![c].pc = "L98" ]
  /\ UNCHANGED << caches, cache, timers, store_aggregation_timer, emits,
                  agg_log, created, handled, inserts, limits, built, keyed >>

\* mutant: line 99 is missing, the detached cache stays the live one
store_aggregation_detach_keep(c) ==
  /\ flushes[c].pc = "L98"
  /\ flushes' = [ flushes EXCEPT ![c].pc = "L102", ![c].temp_aggregation = cache ]
  /\ aggregation_lock' = Release(aggregation_lock, -c)
  /\ UNCHANGED << caches, cache, timers, store_aggregation_timer, emits,
                  agg_log, created, handled, inserts, limits, built, keyed >>

\* lines 98-99: temp_aggregation = self._cache; self._cache =
\* self.cache_factory(); then the end of the with block
store_aggregation_detach(c) ==
  /\ flushes[c].pc = "L98"
  /\ flushes' = [ flushes EXCEPT ![c].pc = "L102", ![c].temp_aggregation = cache ]
  /\ caches' = Append(caches, cache_factory)
  /\ cache' = Len(caches) + 1
  /\ aggregation_lock' = Release(aggregation_lock, -c)
  /\ UNCHANGED << timers, store_aggregation_timer, emits, agg_log, created,
                  handled, inserts, limits, built, keyed >>

\* line 102: sorted(temp_aggregation.items()), evaluated once
store_aggregation_sorted(c) ==
  /\ flushes[c].pc = "L102"
  /\ LET items == sorted(caches[flushes[c].temp_aggregation])
     IN  flushes' = [ flushes EXCEPT ![c].items = items,
                        ![c].pc = IF items = << >> THEN "L106" ELSE "L103" ]
  /\ UNCHANGED << caches, cache, aggregation_lock, timers,
                  store_aggregation_timer, emits, agg_log, created, handled,
                  inserts, limits, built, keyed >>

\* line 103, one iteration: self.agg_log.info("{}\t{}".format(key, value))
store_aggregation_info(c) ==
  /\ flushes[c].pc = "L103"
  /\ LET item == Head(flushes[c].items)
         s == EntryStr(item.value)
         rest == Tail(flushes[c].items)
     IN  IF s.raised # ""
         THEN /\ flushes' = Raise(c, s.raised)
              /\ UNCHANGED agg_log
         ELSE /\ agg_log' = Append(agg_log,
                   [ call |-> c, line |-> FormatLine(item.key, s.str) ])
              /\ flushes' = [ flushes EXCEPT ![c].items = rest,
                                ![c].pc = IF rest = << >> THEN "L106" ELSE "L103" ]
  /\ UNCHANGED << caches, cache, aggregation_lock, timers,
                  store_aggregation_timer, emits, created, handled, inserts, limits, built, keyed >>

\* line 106: self._store_aggregation_timer = self.flush_timer_factory()
store_aggregation_create(c) ==
  /\ flushes[c].pc = "L106"
  /\ timers' = Append(timers, NewTimer)
  /\ store_aggregation_timer' = Len(timers) + 1
  /\ flushes' = [ flushes EXCEPT ![c].pc = "L107" ]
  /\ UNCHANGED << caches, cache, aggregation_lock, emits, agg_log, created,
                  handled, inserts, limits, built, keyed >>

\* line 107: self._store_aggregation_timer.start(); starting a thread twice
\* raises RuntimeError
store_aggregation_start(c) ==
  /\ flushes[c].pc = "L107"
  /\ IF store_aggregation_timer = 0
     THEN /\ flushes' = Raise(c, "AttributeError")
          /\ UNCHANGED timers
     ELSE IF timers[store_aggregation_timer].started
     THEN /\ flushes' = Raise(c, "RuntimeError")
          /\ UNCHANGED timers
     ELSE /\ timers' = [ timers EXCEPT ![store_aggregation_timer].started = TRUE ]
          /\ flushes' = [ flushes EXCEPT ![c].pc = "done",
                                         ![c].armed = store_aggregation_timer ]
  /\ UNCHANGED << caches, cache, aggregation_lock, store_aggregation_timer,
                  emits, agg_log, created, handled, inserts, limits, built, keyed >>

Next ==
  \/ \E p \in Producers, lc \in LogCalls : emit_call(p, lc)
  \/ \E p \in Producers : emit_acquire(p)
  \/ \E p \in Producers : emit_getitem(p)
  \/ \E p \in Producers : emit_cache(p)
  \/ \E p \in Producers : emit_handleError(p)
  \/ \E t \in 1..Len(timers) : timer_run(t)
  \/ flush
  \/ \E c \in 1..Len(flushes) : store_aggregation_cancel(c)
  \/ \E c \in 1..Len(flushes) : store_aggregation_del(c)
  \/ \E c \in 1..Len(flushes) : store_aggregation_acquire(c)
  \/ \E c \in 1..Len(flushes) : store_aggregation_detach(c)
  \/ \E c \in 1..Len(flushes) : store_aggregation_sorted(c)
  \/ \E c \in 1..Len(flushes) : store_aggregation_info(c)
  \/ \E c \in 1..Len(flushes) : store_aggregation_create(c)
  \/ \E c \in 1..Len(flushes) : store_aggregation_start(c)

Spec == Init /\ [][Next]_vars

\* The scheduling of the design: one background timer thread drives the
\* flushes, no thread calls flush() itself.
NextTimer ==
  \/ \E p \in Producers, lc \in LogCalls : emit_call(p, lc)
  \/ \E p \in Producers : emit_acquire(p)
  \/ \E p \in Producers : emit_getitem(p)
  \/ \E p \in Producers : emit_cache(p)
  \/ \E p \in Producers : emit_handleError(p)
  \/ \E t \in 1..Len(timers) : timer_run(t)
  \/ \E c \in 1..Len(flushes) : store_aggregation_cancel(c)
  \/ \E c \in 1..Len(flushes) : store_aggregation_del(c)
  \/ \E c \in 1..Len(flushes) : store_aggregation_acquire(c)
  \/ \E c \in 1..Len(flushes) : store_aggregation_detach(c)
  \/ \E c \in 1..Len(flushes) : store_aggregation_sorted(c)
  \/ \E c \in 1..Len(flushes) : store_aggregation_info(c)
  \/ \E c \in 1..Len(flushes) : store_aggregation_create(c)
  \/ \E c \in 1..Len(flushes) : store_aggregation_start(c)

InitTimer == InitWith(NumProducers, MaxRecords, MaxFlushes)

SpecTimer == InitTimer /\ [][NextTimer]_vars

\* A scenario of one application thread that logs, with the timer flushing.
InitScenario == InitWith(1, ScenarioRecords, MaxFlushes)

SpecScenario == InitScenario /\ [][NextTimer]_vars

\* ----------------------------------------------------------- construction
\* No handler has been constructed.
NoEngine ==
  /\ limits = [ records |-> 0, flushes |-> 0 ]
  /\ caches = << >>
  /\ cache = 0
  /\ aggregation_lock = 0
  /\ timers = << >>
  /\ store_aggregation_timer = 0
  /\ emits = << >>
  /\ flushes = << >>
  /\ agg_log = << >>
  /\ created = 0
  /\ handled = 0
  /\ inserts = << >>

\* the arguments that the applications pass to LogAggregatorHandler(...)
FlushTimerArgs == { NoFlushTimer, Seconds(0 - 1), Seconds(0), Seconds(5) }
SeparatorArgs == { None, << >>, << "," >> }

\* the module is run as a script (logging is imported at line 111 before the
\* first construction) or imported by an application (it is not)
InitConstruct ==
  /\ NoEngine
  /\ handlers = << >>
  /\ lists = << default_metadata >>
  /\ logging_imported \in BOOLEAN
  /\ keyed = NoKeys

\* LogAggregatorHandler(flush_timer, sep, add_process_thread)
construct(flush_timer, sep, add_process_thread) ==
  /\ Len(handlers) < MaxEngines
  /\ LET made == Construct(flush_timer, sep, add_process_thread,
                           lists[default_metadata_ref], logging_imported)
     IN  /\ handlers' = Append(handlers, made.self)
         /\ lists' = [ lists EXCEPT ![default_metadata_ref] = made.list ]
  /\ UNCHANGED << caches, cache, aggregation_lock, timers,
                  store_aggregation_timer, emits, flushes, agg_log, created,
                  handled, inserts, limits, logging_imported, keyed >>

NextConstruct ==
  \E flush_timer \in FlushTimerArgs, sep \in SeparatorArgs,
     add_process_thread \in BOOLEAN :
       construct(flush_timer, sep, add_process_thread)

SpecConstruct == InitConstruct /\ [][NextConstruct]_vars

\* ------------------------------------------------- find_unique, any input
\* Records whose attributes are present or not, hold the separator or not, and
\* hold an int or the str of that int.
Filenames   == { [str |-> << "A" >>], [str |-> << "A", "\t", "r" >>],
                 [str |-> << "m", "i", "s", "s", "i", "n", "g", " " >>
                          \o AttrName("filename")] }
Names       == { [str |-> << "r" >>], [str |-> << "r", "\t", "r" >>],
                 [str |-> << "r", "f" >>] }
FuncNames   == { [str |-> << "f" >>], [str |-> << "f", "f" >>] }
Linenos     == { [int |-> 7], [str |-> << "7" >>] }

KeyRecords ==
  LET full == { [ filename |-> fi, name |-> na, funcName |-> fu, lineno |-> li ] :
                  fi \in Filenames, na \in Names, fu \in FuncNames,
                  li \in Linenos }
      noFile == { [ name |-> na, funcName |-> fu, lineno |-> li ] :
                    na \in Names, fu \in FuncNames, li \in Linenos }
  IN  { [ NoRecord EXCEPT !.attrs = attrs ] : attrs \in full \cup noFile }

KeyMetadata == << "filename", "name", "funcName", "lineno" >>
KeySeparators == { default_separator, << "," >> }

InitKey ==
  /\ NoEngine
  /\ handlers = << >>
  /\ lists = << default_metadata >>
  /\ logging_imported = TRUE
  /\ \E a \in KeyRecords, b \in KeyRecords, sep \in KeySeparators :
        keyed = [ a |-> a, b |-> b, metadata |-> KeyMetadata,
                  separator |-> sep, keys |-> << >> ]

\* self.find_unique(a) and self.find_unique(b)
find_unique_call ==
  /\ keyed.keys = << >>
  /\ keyed' = [ keyed EXCEPT !.keys = << find_unique_of(keyed, keyed.a),
                                         find_unique_of(keyed, keyed.b) >> ]
  /\ UNCHANGED << caches, cache, aggregation_lock, timers,
                  store_aggregation_timer, emits, flushes, agg_log, created,
                  handled, inserts, limits, built >>

NextKey == find_unique_call

SpecKey == InitKey /\ [][NextKey]_vars

\* ============================================================ properties
\* the counter of key k in dict d, 0 when d has no entry for k
CounterOf(d, k) == IF IndexOf(d, k) = 0 THEN 0 ELSE d[IndexOf(d, k)].value.counter

\* the completed inserts of key k that ended while cache c was the live one
InsertsInto(c, k) ==
  { i \in 1..Len(inserts) : inserts[i].key = k /\ inserts[i].end = c }

RecordKeys == { find_unique(MakeRecord(lc, 0)) : lc \in LogCalls }

\* the cache that flush call c detached, 0 before the detach
Detached(c) == flushes[c].temp_aggregation

\* C1: no loss and no duplication under a flush race.  Every completed insert
\* is counted in exactly one cache, the one that was live when the insert
\* completed: a cache that a flush has detached holds the inserts completed
\* before the detach, the live cache the ones begun after it, and for every
\* key the counters of all caches sum up to the number of completed inserts.
C1_NoLossNoDuplication ==
  /\ \A c \in 1..Len(caches), k \in RecordKeys :
        CounterOf(caches[c], k) = Cardinality(InsertsInto(c, k))
  /\ \A i \in 1..Len(inserts) :
        inserts[i].begin <= inserts[i].end /\ inserts[i].end <= cache

\* C1 witness: a flush detached cache 1 between two inserts of one key, the
\* second of which was called before the detach and completed after it
C1_Witness ==
  /\ \E c \in 1..Len(flushes) : Detached(c) = 1
  /\ \E i, j \in 1..Len(inserts) :
        /\ inserts[i].key = inserts[j].key
        /\ inserts[i].end = 1
        /\ inserts[j].begin = 1 /\ inserts[j].end = 2

\* C3: exactly one cache accepts writes.  A step changes no cache but the live
\* one, the cache a flush holds as temp_aggregation is never the live one, and
\* an insert in progress writes to the live one.
C3_DetachedNeverWritten ==
  [][ /\ \A c \in 1..Len(caches) : c # cache => caches'[c] = caches[c]
      /\ \A c \in 1..Len(flushes) : Detached(c) # cache
      /\ \A p \in Producers : emits[p].pc = "L86" => emits[p].target = cache
    ]_vars

\* C3 witness: an insert completed into the new live cache while a flush was
\* still emitting the snapshot it had detached
C3_Witness ==
  \E c \in 1..Len(flushes) :
    /\ flushes[c].pc = "L103"
    /\ \E i \in 1..Len(inserts) : inserts[i].end > Detached(c)
    /\ \E i \in 1..Len(inserts) : inserts[i].end = Detached(c)

\* the entry that the insert of producer p is about to fold its record into
TargetEntry(p) ==
  caches[emits[p].target][IndexOf(caches[emits[p].target], emits[p].metadata)].value

\* the key of p's record has an entry whose message is a message template
\* other than the one of the record
Mismatching(p) ==
  /\ emits[p].pc = "L86"
  /\ TargetEntry(p).message # None
  /\ TargetEntry(p).message # emits[p].record.msg

\* C4: message mismatch.  An insert of a record whose key has an entry with a
\* different message template raises inside emit (it reaches the except
\* clause), and leaves the entry, and every cache, as it was: no counter,
\* message, timestamp or args changes, and no insert is recorded.
C4_MismatchRaisesAndKeepsEntry ==
  [][ \A p \in Producers :
        (Mismatching(p) /\ emits'[p].pc # "L86")
          => /\ emits'[p].pc = "L88"
             /\ caches' = caches
             /\ inserts' = inserts
    ]_vars

\* C4 witness: a mismatching record was handled and the entry still holds the
\* one record that was cached before it
C4_Witness ==
  /\ handled = 1
  /\ Len(inserts) = 1
  /\ created = 2
  /\ \A p \in Producers : emits[p].pc = "idle"
  /\ \E c \in 1..Len(caches) :
        /\ Len(caches[c]) = 1
        /\ caches[c][1].value.counter = 1
        /\ caches[c][1].value.message = inserts[1].msg
        /\ caches[c][1].value.timestamp = << inserts[1].created >>

\* C5: ingestion never crashes the producer.  No exception leaves emit: an
\* emit call is at one of its lines or has returned, and a producer holds the
\* aggregation lock only inside the with block, so not while or after the
\* error is handled.
C5_EmitNeverPropagates ==
  \A p \in Producers :
    /\ emits[p].pc \in { "idle", "L84", "L85", "L86", "L88" }
    /\ aggregation_lock = p => emits[p].pc \in { "L85", "L86" }

\* C5 witness: an insert failed in cache 1 and its error was handled, and the
\* flush then took the lock and detached cache 1
C5_Witness ==
  /\ handled >= 1
  /\ Len(caches) = 2 /\ Len(caches[2]) = 0 /\ Len(inserts) = 1
  /\ \E c \in 1..Len(flushes) : Detached(c) = 1
  /\ aggregation_lock = 0

\* the flush calls whose for loop has ended without an exception
EmissionOver(c) == flushes[c].pc \in { "L106", "L107", "done" }

IsPrefix(a, b) == Len(a) <= Len(b) /\ SubSeq(b, 1, Len(a)) = a

\* the positions in agg_log of the lines that flush call c emitted for key k
LinesFor(c, k) ==
  { i \in 1..Len(agg_log) :
      agg_log[i].call = c /\ IsPrefix(k \o << "\t" >>, agg_log[i].line) }

\* the lines that flush call c emitted, in emission order
LinesOf(c) == SelectSeq(agg_log, LAMBDA l : l.call = c)

IsDigit(ch) == \E d \in 1..10 : Digits[d] = ch

RECURSIVE TrailingDigits(_)
TrailingDigits(s) ==
  IF s = << >> \/ ~IsDigit(s[Len(s)]) THEN << >>
  ELSE Append(TrailingDigits(SubSeq(s, 1, Len(s) - 1)), s[Len(s)])

RECURSIVE ParseInt(_)
ParseInt(ds) ==
  IF ds = << >> THEN 0
  ELSE 10 * ParseInt(SubSeq(ds, 1, Len(ds) - 1))
       + ((CHOOSE d \in 1..10 : Digits[d] = ds[Len(ds)]) - 1)

TimesSuffix == << " ", "t", "i", "m", "e", "s", ")" >>

\* the count a line reports: the number written before " times)"
ReportedCount(line) ==
  IF Len(line) >= 7 /\ SubSeq(line, Len(line) - 6, Len(line)) = TimesSuffix
     /\ TrailingDigits(SubSeq(line, 1, Len(line) - 7)) # << >>
  THEN ParseInt(TrailingDigits(SubSeq(line, 1, Len(line) - 7)))
  ELSE -1

\* the inserts of key k into cache c all carry one message template
OneTemplate(c, k) ==
  \A i, j \in InsertsInto(c, k) :
    inserts[i].msg = inserts[j].msg /\ inserts[i].msg # None

\* C2: counting invariant.  When N >= 1 records of one key and one message
\* template were ingested before a flush detached the cache, the flush, once
\* its emission is over, has emitted exactly one line for the key and that
\* line reports N.
C2_CountEqualsRecords ==
  \A c \in 1..Len(flushes), k \in RecordKeys :
    (EmissionOver(c) /\ InsertsInto(Detached(c), k) # {}
       /\ OneTemplate(Detached(c), k))
      => /\ Cardinality(LinesFor(c, k)) = 1
         /\ \A i \in LinesFor(c, k) :
              ReportedCount(agg_log[i].line)
                = Cardinality(InsertsInto(Detached(c), k))

\* C2 witness: a finished flush reported a count of at least 2 for a key
C2_Witness ==
  \E c \in 1..Len(flushes), k \in RecordKeys :
    /\ flushes[c].pc = "done"
    /\ OneTemplate(Detached(c), k)
    /\ Cardinality(InsertsInto(Detached(c), k)) >= 2
    /\ \E i \in LinesFor(c, k) : ReportedCount(agg_log[i].line) >= 2

\* C8: the aggregation lock is held for one insert or one detach only.  A
\* flush call owns the lock only at the detach, never while it sorts, renders
\* or forwards lines, and a producer owns it only during its insert.
C8_LockNotHeldAcrossEmission ==
  /\ \A c \in 1..Len(flushes) :
        /\ flushes[c].pc \in { "L102", "L103" } => aggregation_lock # -c
        /\ aggregation_lock = -c => flushes[c].pc = "L98"
  /\ \A p \in Producers :
        aggregation_lock = p => emits[p].pc \in { "L85", "L86" }

\* C8 witness: while a flush was emitting, an emit call that began after the
\* detach took the lock and completed its insert
C8_Witness ==
  \E c \in 1..Len(flushes) :
    /\ flushes[c].pc = "L103"
    /\ \E i \in 1..Len(inserts) :
          inserts[i].begin = Detached(c) + 1 /\ inserts[i].end = Detached(c) + 1

\* a comes before b in lexicographic order of the code points
LexBefore(a, b) ==
  \E n \in 0..Len(a) :
    /\ n <= Len(b)
    /\ SubSeq(a, 1, n) = SubSeq(b, 1, n)
    /\ \/ n = Len(a) /\ n < Len(b)
       \/ n < Len(a) /\ n < Len(b) /\ Ord(a[n + 1]) < Ord(b[n + 1])

\* the key whose line the i-th line of flush call c is
KeyOfLine(c, i) ==
  { k \in Keys(caches[Detached(c)]) : IsPrefix(k \o << "\t" >>, LinesOf(c)[i].line) }

\* C9: deterministic emission order.  The lines a flush has emitted are lines
\* of distinct keys of its snapshot in ascending lexicographic key order, the
\* keys not yet emitted all come after them, and when the emission is over
\* there is exactly one line per key of the snapshot.
C9_LinesInKeyOrder ==
  \A c \in 1..Len(flushes) :
    Detached(c) # 0 =>
      LET lines == LinesOf(c)
          snapshot == caches[Detached(c)]
      IN  /\ \A i \in 1..Len(lines) : Cardinality(KeyOfLine(c, i)) = 1
          /\ \A i, j \in 1..Len(lines) :
                i < j => \A a \in KeyOfLine(c, i), b \in KeyOfLine(c, j) :
                           LexBefore(a, b)
          /\ \A k \in Keys(snapshot) :
                (\A i \in 1..Len(lines) : k \notin KeyOfLine(c, i))
                  => \A i \in 1..Len(lines) :
                       \A a \in KeyOfLine(c, i) : LexBefore(a, k)
          /\ EmissionOver(c) => Len(lines) = Len(snapshot)

KeyA7  == find_unique(MakeRecord([attrs |-> Site("A", 7), msg |-> Ok, hasArgs |-> FALSE], 0))
KeyA10 == find_unique(MakeRecord([attrs |-> Site("A", 10), msg |-> Ok, hasArgs |-> FALSE], 0))
KeyB7  == find_unique(MakeRecord([attrs |-> Site("B", 7), msg |-> Ok, hasArgs |-> FALSE], 0))

\* C9 witness: the keys were inserted in the order A..7, B..7, A..10 and the
\* flush emitted the three lines
C9_Witness ==
  \E c \in 1..Len(flushes) :
    /\ flushes[c].pc = "done"
    /\ Len(LinesOf(c)) = 3
    /\ Len(caches[Detached(c)]) = 3
    /\ caches[Detached(c)][1].key = KeyA7
    /\ caches[Detached(c)][2].key = KeyB7
    /\ caches[Detached(c)][3].key = KeyA10

\* flush call c has finished after a snapshot of exactly three records with
\* the message "disk full", all of key A..7
ThreeDiskFull(c) ==
  /\ EmissionOver(c)
  /\ Keys(caches[Detached(c)]) = { KeyA7 }
  /\ Cardinality(InsertsInto(Detached(c), KeyA7)) = 3
  /\ \A i \in InsertsInto(Detached(c), KeyA7) : inserts[i].msg = DiskFull

\* flush call c emitted the one line "<key>" followed by tail
OneLine(c, key, tail) ==
  /\ Len(LinesOf(c)) = 1
  /\ LinesOf(c)[1].line = key \o tail

\* C10 as the specification states it: after 3 records "disk full" at one key
\* and a flush, the line is "<key>\tdisk full\t(occurred 3 times)", with
\* nothing between the second tab and the parenthesis.
C10_LineWithoutSpace ==
  \A c \in 1..Len(flushes) :
    ThreeDiskFull(c) =>
      OneLine(c, KeyA7,
        << "\t", "d", "i", "s", "k", " ", "f", "u", "l", "l", "\t",
           "(", "o", "c", "c", "u", "r", "r", "e", "d", " ", "3", " ",
           "t", "i", "m", "e", "s", ")" >>)

\* C10 amended: the rendering of an entry is the message, one tab, one space,
\* then "(occurred <counter> times)", and the line is the key, one tab, then
\* that rendering; after 3 records "disk full" at one key and a flush the
\* single line is "<key>\tdisk full\t (occurred 3 times)".
C10_LineWithSpace ==
  \A c \in 1..Len(flushes) :
    /\ ThreeDiskFull(c) =>
         OneLine(c, KeyA7,
           << "\t", "d", "i", "s", "k", " ", "f", "u", "l", "l", "\t", " ",
              "(", "o", "c", "c", "u", "r", "r", "e", "d", " ", "3", " ",
              "t", "i", "m", "e", "s", ")" >>)
    /\ \A i \in 1..Len(LinesOf(c)) :
         \E j \in 1..Len(caches[Detached(c)]) :
           LET item == caches[Detached(c)][j]
           IN  LinesOf(c)[i].line =
                 item.key \o << "\t" >> \o item.value.message
                   \o << "\t", " ", "(", "o", "c", "c", "u", "r", "r", "e", "d", " " >>
                   \o IntToStr(item.value.counter) \o TimesSuffix

\* C10 witness: a flush has emitted the snapshot of three "disk full" records
C10_Witness ==
  \E c \in 1..Len(flushes) : ThreeDiskFull(c) /\ flushes[c].pc = "done"

\* a timer that will fire: started, not cancelled, not yet run
Pending(t) == timers[t].started /\ ~timers[t].finished /\ ~timers[t].fired

PendingTimers == { t \in 1..Len(timers) : Pending(t) }

\* C6: the scheduler re-arms regardless of the emission outcome.  When a flush
\* call has ended with an exception of the emission step, a timer of the same
\* interval is pending.
C6_RearmedAfterFailedEmission ==
  \A c \in 1..Len(flushes) :
    (flushes[c].pc = "raised" /\ flushes[c].raised = "TypeError")
      => \E t \in PendingTimers : timers[t].interval = default_flush_timer

\* C7: at most one flush timer is outstanding, in every reachable state.
C7_AtMostOnePendingTimer == Cardinality(PendingTimers) <= 1

\* flush call c has ended with the exception of the emission step
EmissionFailed(c) == flushes[c].pc = "raised" /\ flushes[c].raised = "TypeError"

\* the record of p's insert in progress matches the entry it is folded into
Matching(p) ==
  /\ emits[p].pc = "L86"
  /\ TargetEntry(p).message \in { None, emits[p].record.msg }

\* C11: failure isolation of emission.  A flush that is past its detach holds
\* a cache that is no longer the live one; no two flush calls hold the same
\* snapshot, so no later flush emits it again; after a failed emission the
\* live cache holds records of inserts completed after the detach and no
\* others, the failed call does not own the lock, and an insert in progress
\* whose record matches its entry completes and is counted in the live cache.
C11_FailedEmissionKeepsDetach ==
  [][ /\ \A c \in 1..Len(flushes) :
          /\ flushes[c].pc \in { "L102", "L103", "L106", "L107", "done" }
               => Detached(c) # 0 /\ Detached(c) < cache
          /\ \A d \in 1..Len(flushes) :
               (c # d /\ Detached(c) # 0) => Detached(c) # Detached(d)
          /\ EmissionFailed(c) =>
               /\ Detached(c) # 0 /\ Detached(c) < cache
               /\ aggregation_lock # -c
               /\ caches'[Detached(c)] = caches[Detached(c)]
               /\ \A j \in 1..Len(caches[cache]) :
                    \A n \in 1..Len(caches[cache][j].value.timestamp) :
                      \E i \in 1..Len(inserts) :
                        /\ inserts[i].created = caches[cache][j].value.timestamp[n]
                        /\ inserts[i].key = caches[cache][j].key
                        /\ inserts[i].end > Detached(c)
      /\ \A p \in Producers :
           ((\E c \in 1..Len(flushes) : EmissionFailed(c))
              /\ Matching(p) /\ emits'[p].pc # "L86")
             => /\ emits'[p].pc = "idle"
                /\ Len(inserts') = Len(inserts) + 1
                /\ inserts'[Len(inserts')].end = cache
                /\ CounterOf(caches'[cache], emits[p].metadata)
                     = CounterOf(caches[cache], emits[p].metadata) + 1
    ]_vars

\* C11 witness: the emission of cache 1 failed, and a record logged after the
\* detach has been counted in the live cache
C11_Witness ==
  \E c \in 1..Len(flushes) :
    /\ EmissionFailed(c)
    /\ Len(caches[cache]) = 1
    /\ caches[cache][1].value.counter = 1
    /\ \E i \in 1..Len(inserts) :
          inserts[i].begin = cache /\ inserts[i].end = cache

\* the counter of key k in cache c, 0 for a cache or an entry not made yet
CounterIn(cs, c, k) == IF c \in 1..Len(cs) THEN CounterOf(cs[c], k) ELSE 0

\* an insert completes in this step, into the entry of key k of cache c
Cached(c, k) ==
  /\ Len(inserts') = Len(inserts) + 1
  /\ inserts'[Len(inserts')].key = k
  /\ inserts'[Len(inserts')].end = c

\* C14: cache-entry internal consistency.  After every step, every entry of
\* every cache, live or detached, has as many timestamps as args tuples as its
\* counter says; the counter of an entry grows by exactly one in a step that
\* completes an insert into that entry, and does not change in any other step.
C14_LengthsEqualCounter ==
  [][ /\ \A c \in 1..Len(caches') : \A j \in 1..Len(caches'[c]) :
          /\ Len(caches'[c][j].value.timestamp) = caches'[c][j].value.counter
          /\ Len(caches'[c][j].value.args) = caches'[c][j].value.counter
      /\ \A c \in 1..Len(caches'), k \in RecordKeys :
          CounterIn(caches', c, k)
            = CounterIn(caches, c, k) + (IF Cached(c, k) THEN 1 ELSE 0)
    ]_vars

\* C14 witness: an entry of a detached cache and an entry of the live cache
\* each hold a record, the detached one logged without args
C14_Witness ==
  /\ cache = 2
  /\ \E j \in 1..Len(caches[1]) :
       caches[1][j].value.counter = 1 /\ caches[1][j].value.args = << << >> >>
  /\ \E j \in 1..Len(caches[2]) : caches[2][j].value.counter = 1

\* the first completed insert into the entry of key k of cache c
FirstInsert(c, k) ==
  CHOOSE i \in InsertsInto(c, k) : \A j \in InsertsInto(c, k) : i <= j

\* C15: the message of an entry is set once, by the first record cached into
\* it, and stays that record's message for the life of the entry, whatever
\* message value the first record carries.
C15_MessageIsFirstRecords ==
  \A c \in 1..Len(caches) : \A j \in 1..Len(caches[c]) :
    InsertsInto(c, caches[c][j].key) # {}
      => caches[c][j].value.message
           = inserts[FirstInsert(c, caches[c][j].key)].msg

\* the completed inserts into the entry of key k of cache c among the first n,
\* in the order in which they completed
RECURSIVE InsertedInto(_, _, _)
InsertedInto(c, k, n) ==
  IF n = 0 THEN << >>
  ELSE IF inserts[n].key = k /\ inserts[n].end = c
       THEN Append(InsertedInto(c, k, n - 1), inserts[n])
       ELSE InsertedInto(c, k, n - 1)

\* C16: within one entry, the timestamps and the args tuples are in the order
\* in which the inserts of the key completed, that is the order in which they
\* held the lock, and the i-th timestamp and the i-th args tuple are those of
\* the i-th such record.
C16_InsertionOrder ==
  \A c \in 1..Len(caches) : \A j \in 1..Len(caches[c]) :
    LET done == InsertedInto(c, caches[c][j].key, Len(inserts))
        entry == caches[c][j].value
    IN  /\ Len(entry.timestamp) = Len(done)
        /\ Len(entry.args) = Len(done)
        /\ \A i \in 1..Len(done) :
             /\ entry.timestamp[i] = done[i].created
             /\ entry.args[i] = done[i].args

\* C16 witness: two records of one key, the one created later cached first
C16_Witness ==
  \E c \in 1..Len(caches) : \E j \in 1..Len(caches[c]) :
    /\ caches[c][j].value.timestamp = << 2, 1 >>
    /\ caches[c][j].value.args = << << 2 >>, << 1 >> >>

\* flush call c has not ended yet
Running(c) == flushes[c].pc \notin { "done", "raised" }

\* C17: the timer re-schedules itself indefinitely, so flushes occur
\* infinitely often and every ingested record is eventually handed to
\* emission.  With the timer as the only caller of a flush, that requires that
\* in every state a flush call is running or a timer is pending: from a state
\* with neither, no flush ever starts again and the records cached from then
\* on stay in the live cache.
C17_FlushAlwaysAhead ==
  (\A c \in 1..Len(flushes) : ~Running(c)) => PendingTimers # {}

\* C18: two overlapping flush calls, from the timer thread and from a thread
\* of the application, both complete without error: as long as no emission
\* has failed, no call ends with the AttributeError of a timer attribute read
\* or deleted while it is deleted, nor with the RuntimeError of a timer started
\* twice.
C18_OverlappingFlushesComplete ==
  (\A c \in 1..Len(flushes) : ~EmissionFailed(c))
    => \A c \in 1..Len(flushes) :
         flushes[c].raised \notin { "AttributeError", "RuntimeError" }

\* C19: the engine recovers from a failed flush.  When the emission of an
\* earlier flush call has failed and no other flush call is running, a flush
\* call that runs its first line goes on to the next line, towards its detach
\* and emission, instead of ending with an exception.
C19_FlushAfterFailedFlush ==
  [][ \A d \in 1..Len(flushes) :
        ( /\ flushes[d].pc = "L95"
          /\ flushes'[d].pc # "L95"
          /\ \E c \in 1..Len(flushes) : c < d /\ EmissionFailed(c)
          /\ \A c \in 1..Len(flushes) : c # d => ~Running(c) )
          => flushes'[d].pc = "L96"
    ]_vars

\* C12: a non-positive flush interval fails fast at construction.  Every
\* construction with a flush interval of 0 or less has ended in an error, and
\* has started no timer, neither with that interval nor with another one.
C12_NonPositiveIntervalFailsFast ==
  \A h \in 1..Len(handlers) :
    (handlers[h].flush_timer_arg.given /\ handlers[h].flush_timer_arg.seconds <= 0)
      => /\ handlers[h].raised # ""
         /\ ~handlers[h].store_aggregation_timer.started

\* the attribute names that handler h builds its keys from
MetadataOf(h) == lists[handlers[h].metadata]

\* C20: add_process_thread changes the identity attributes of that engine
\* only.  After any sequence of constructions, every engine built with
\* add_process_thread = False uses exactly the five default attributes and
\* every engine built with True uses those five followed by process and thread
\* once.
C20_ProcessThreadOfThatEngineOnly ==
  \A h \in 1..Len(handlers) :
    handlers[h].raised = ""
      => MetadataOf(h) = IF handlers[h].add_process_thread
                         THEN default_metadata \o << "process", "thread" >>
                         ELSE default_metadata

\* what find_unique reads for attribute name n of a record: the str of the
\* value, or the placeholder of a missing attribute
FieldOf(record, n) ==
  IF n \in DOMAIN record.attrs THEN StrOf(record.attrs[n])
  ELSE << "m", "i", "s", "s", "i", "n", "g", " " >> \o AttrName(n)

\* attribute n is present on both records with the same str, or missing on both
IdenticalOn(a, b, n) ==
  /\ (n \in DOMAIN a.attrs) <=> (n \in DOMAIN b.attrs)
  /\ n \in DOMAIN a.attrs => StrOf(a.attrs[n]) = StrOf(b.attrs[n])

\* the separator is one character, found in no field of the record
SeparatorFree(record, names, sep) ==
  /\ Len(sep) = 1
  /\ \A i \in 1..Len(names) :
       \A j \in 1..Len(FieldOf(record, names[i])) :
         FieldOf(record, names[i])[j] # sep[1]

\* C13 as stated: two records have the same key if and only if every
\* configured attribute stringifies identically on both, a missing attribute
\* counting as different from every present value.
C13_SameKeyIffSameAttributes ==
  keyed.keys # << >>
    => ( keyed.keys[1] = keyed.keys[2]
           <=> \A i \in 1..Len(keyed.metadata) :
                 IdenticalOn(keyed.a, keyed.b, keyed.metadata[i]) )

\* C13 amended: two records whose fields (the str of each configured
\* attribute, the placeholder for a missing one) are identical have the same
\* key; two records with the same key have identical fields provided that the
\* separator is one character that occurs in no field of either record.
C13_SameKeyIfSameFields ==
  keyed.keys # << >>
    => LET sameFields == \A i \in 1..Len(keyed.metadata) :
                           FieldOf(keyed.a, keyed.metadata[i])
                             = FieldOf(keyed.b, keyed.metadata[i])
       IN  /\ sameFields => keyed.keys[1] = keyed.keys[2]
           /\ ( /\ keyed.keys[1] = keyed.keys[2]
                /\ SeparatorFree(keyed.a, keyed.metadata, keyed.separator)
                /\ SeparatorFree(keyed.b, keyed.metadata, keyed.separator) )
                => sameFields

\* C13 witness: two records that differ (an int and its str as line number)
\* and hold no separator have been given the same key
C13_Witness ==
  /\ keyed.keys # << >>
  /\ keyed.keys[1] = keyed.keys[2]
  /\ keyed.a.attrs # keyed.b.attrs
  /\ SeparatorFree(keyed.a, keyed.metadata, keyed.separator)
  /\ SeparatorFree(keyed.b, keyed.metadata, keyed.separator)

====
